---- MODULE Spec2Model ----
(***************************************************************************)
(* Weather dashboard (src/app.py): one run of the script is one render     *)
(* cycle.  The module models the script's stages in order, together with   *)
(* the pure pieces it is built from: the WMO code -> theme lookup, the     *)
(* forecast-window mask, weather_message and the alert checks.             *)
(* Temperatures, speeds, percentages and times (in hours) are integers.    *)
(***************************************************************************)
EXTENDS FiniteSets, Integers, Sequences, TLC

VARIABLES
    city,             \* sidebar text input (line 176)
    hours_ahead,      \* sidebar slider (line 177)
    show_table,       \* sidebar checkbox (line 178)
    pc,               \* position of the script
    http,             \* what the two requests of this cycle did, "" before
    geo,              \* result of geocode_city: "unset", "None" or "found"
    data,             \* forecast payload returned by fetch_weather
    fetch_calls,      \* number of calls of fetch_weather in this cycle
    theme,            \* theme descriptor chosen by set_theme_from_code
    now,              \* start of the forecast window (line 240)
    hr,               \* the forecast window: [defined, rows]
    friendly_message, \* result of weather_message
    alerts,           \* the alert list (line 284)
    rendered,         \* sections written to the page so far
    errors,           \* number of st.error calls
    raised,           \* exception that ended the script, "" when none
    args              \* arguments of the function under test (function specs)

vars == <<city, hours_ahead, show_table, pc, http, geo, data, fetch_calls, theme, now,
          hr, friendly_message, alerts, rendered, errors, raised, args>>

----------------------------------------------------------------------------
(* Bounds of the model *)

\* payload keys that may be absent from one payload
MaxMissing == 2
\* longest hourly series of a payload in the render cycle
MaxLen == 2
\* forecast-horizon slider positions tried in the render cycle (6 h each)
MaxSliderSteps == 1
\* how far around each threshold the function specifications draw inputs
Margin == 2
\* latest hour of a series in the window specification
MaxTime == 5
\* largest horizon in the window specification
MaxHorizon == 4
\* largest WMO code tried by the classifier specification
MaxCode == 101

----------------------------------------------------------------------------
(* Static tables *)

\* lines 78-86; the colours c1..c3 are carried as one tag
CONDITION_THEMES ==
    [k \in {"clear", "cloudy", "fog", "rain", "storm", "snow"} |->
        CASE k = "clear"  -> [colors |-> "clear",  name |-> "Clear"]
          [] k = "cloudy" -> [colors |-> "cloudy", name |-> "Cloudy"]
          [] k = "fog"    -> [colors |-> "fog",    name |-> "Fog"]
          [] k = "rain"   -> [colors |-> "rain",   name |-> "Rain"]
          [] k = "storm"  -> [colors |-> "storm",  name |-> "Storm"]
          [] k = "snow"   -> [colors |-> "snow",   name |-> "Snow"]]

\* lines 90-103
WMO_MAP ==
    [c \in {0, 1, 2, 3, 45, 48, 51, 53, 55, 56, 57, 61, 63, 65, 66, 67,
            71, 73, 75, 77, 80, 81, 82, 85, 86, 95, 96, 99} |->
        CASE c = 0                       -> "clear"
          [] c \in {1, 2, 3}             -> "cloudy"
          [] c \in {45, 48}              -> "fog"
          [] c \in {51, 53, 55}          -> "rain"
          [] c \in {56, 57}              -> "rain"
          [] c \in {61, 63, 65}          -> "rain"
          [] c \in {66, 67}              -> "rain"
          [] c \in {71, 73, 75}          -> "snow"
          [] c = 77                      -> "snow"
          [] c \in {80, 81, 82}          -> "rain"
          [] c \in {85, 86}              -> "snow"
          [] c \in {95, 96, 99}          -> "storm"]

NoTheme == [colors |-> "", name |-> ""]

\* variant: unknown codes fall back to "clear"
ConditionKeyDefaultClear(wmo_code) ==
    IF wmo_code \in DOMAIN WMO_MAP THEN WMO_MAP[wmo_code] ELSE "clear"

\* WMO_MAP.get(wmo_code, "cloudy"), line 139
ConditionKey(wmo_code) ==
    IF wmo_code \in DOMAIN WMO_MAP THEN WMO_MAP[wmo_code] ELSE "cloudy"

\* CONDITION_THEMES[key], line 140: a key without a theme raises KeyError
ThemeLookup(key) ==
    IF key \in DOMAIN CONDITION_THEMES
        THEN [raised |-> "", theme |-> CONDITION_THEMES[key]]
        ELSE [raised |-> "KeyError", theme |-> NoTheme]

\* set_theme_from_code, lines 138-143
set_theme_from_code(wmo_code) == ThemeLookup(ConditionKey(wmo_code))

----------------------------------------------------------------------------
(* Forecast window, lines 241-242 *)

\* variant: the end of the horizon is included
InWindowClosed(t, start, hours) == t >= start /\ t <= start + hours

\* one entry of the mask of line 241
InWindow(t, start, hours) == t >= start /\ t < start + hours

\* hourly.loc[mask]: the rows whose mask entry is true, in frame order
RECURSIVE SelectWindow(_, _, _)
SelectWindow(rows, start, hours) ==
    IF rows = <<>> THEN <<>>
    ELSE LET rest == SelectWindow(Tail(rows), start, hours)
         IN  IF InWindow(Head(rows).time, start, hours)
                 THEN <<Head(rows)>> \o rest
                 ELSE rest

----------------------------------------------------------------------------
(* Friendly message, lines 251-271 *)

\* variant: the first branch also takes 38
HotBranchInclusive(temp) == temp >= 38

\* the test of the first branch, line 252
HotBranch(temp) == temp > 38

weather_message(temp, wind, rain_prob) ==
    IF HotBranch(temp) THEN "scorching"
    ELSE IF temp > 30 THEN "sunny"
    ELSE IF temp < 10 THEN "freezing"
    ELSE IF temp < 18 THEN "cool"
    ELSE IF wind > 40 THEN "strong winds"
    ELSE IF wind > 20 THEN "breezy"
    ELSE IF rain_prob > 70 THEN "umbrella"
    ELSE IF rain_prob > 40 THEN "showers"
    ELSE "pleasant"

----------------------------------------------------------------------------
(* Alert checks, lines 287-306 *)

\* lines 287-290
HeatCheck(acc, t_now) ==
    IF t_now >= 40 THEN Append(acc, "Severe Heat Alert")
    ELSE IF t_now >= 35 THEN Append(acc, "Heat Caution")
    ELSE acc

\* variant: the two wind tests are independent ifs
WindCheckBoth(acc, ws_now) ==
    IF ws_now >= 75 THEN Append(Append(acc, "High Wind"), "Gale Warning")
    ELSE IF ws_now >= 50 THEN Append(acc, "High Wind")
    ELSE acc

\* lines 293-296
WindCheck(acc, ws_now) ==
    IF ws_now >= 75 THEN Append(acc, "Gale Warning")
    ELSE IF ws_now >= 50 THEN Append(acc, "High Wind")
    ELSE acc

\* lines 299-300
RainCheck(acc, rain_next6) ==
    IF rain_next6 >= 70 THEN Append(acc, "High chance of rain in next 6 hours")
    ELSE acc

\* lines 305-306
UvCheck(acc, uv_today) ==
    IF uv_today >= 8 THEN Append(acc, "Extreme UV today")
    ELSE acc

\* the four checks in script order, each appending to the list built so far;
\* has_uv is the test of line 303
ComputeAlerts(t_now, ws_now, rain_next6, has_uv, uv_today) ==
    LET a1 == HeatCheck(<<>>, t_now)
        a2 == WindCheck(a1, ws_now)
        a3 == RainCheck(a2, rain_next6)
    IN  IF has_uv THEN UvCheck(a3, uv_today) ELSE a3

----------------------------------------------------------------------------
(* The forecast payload.  A payload is the JSON of fetch_weather: the       *)
(* current reading, the hourly columns and today's daily columns, any of    *)
(* which the upstream may leave out.                                        *)

Sections == {"current_weather", "hourly", "daily"}

\* fields of current_weather the script reads (lines 211-230, 240, 275-276)
CurrentFields == {"temperature", "windspeed", "winddirection", "weathercode", "time"}

\* hourly columns requested on line 128, plus the time column
HourlyColumns == {"time", "temperature_2m", "apparent_temperature",
                  "relativehumidity_2m", "windspeed_10m", "precipitation_probability"}

\* daily columns the script reads (lines 303-304, 359-369)
DailyColumns == {"temperature_2m_max", "temperature_2m_min", "apparent_temperature_max",
                 "sunrise", "sunset", "uv_index_max"}

\* what a payload can lack: a field, or a whole section (written <<s, "*">>)
PayloadKeys ==
    (Sections \X {"*"}) \cup
    ({"current_weather"} \X CurrentFields) \cup
    ({"hourly"} \X HourlyColumns) \cup
    ({"daily"} \X DailyColumns)

\* values of the current reading and of today's daily row
CalmDay == [temperature |-> 20, windspeed |-> 10, weathercode |-> 0,  uv_index_max |-> 3]
HarshDay == [temperature |-> 41, windspeed |-> 80, weathercode |-> 95, uv_index_max |-> 9]

\* values of the first hourly point; later hours cool by one degree and
\* gain ten points of rain probability
MildHours == [apparent_temperature |-> 20, precipitation_probability |-> 10]
HotWetHours == [apparent_temperature |-> 41, precipitation_probability |-> 65]

\* an hourly series of n points, one per hour from hour 0
HourlySeries(n, first) ==
    [i \in 1..n |->
        [time |-> i - 1,
         apparent_temperature |-> first.apparent_temperature - (i - 1),
         precipitation_probability |-> first.precipitation_probability + 10 * (i - 1)]]

\* timestamps of the current reading: before the series by a whole horizon,
\* at its first and second hour, and after its end
CurrentTimes == {0 - 6, 0, 1, MaxLen + 6}

\* the subsets of S with at most k elements
RECURSIVE SubsetsUpTo(_, _)
SubsetsUpTo(S, k) ==
    IF k = 0 THEN {{}}
    ELSE LET smaller == SubsetsUpTo(S, k - 1)
         IN  smaller \cup {p \cup {x} : p \in smaller, x \in S}

Payloads ==
    { [missing |-> ms, day |-> d, time |-> t, hourly |-> HourlySeries(n, h)] :
        ms \in SubsetsUpTo(PayloadKeys, MaxMissing),
        d \in {CalmDay, HarshDay}, t \in CurrentTimes,
        n \in 0..MaxLen, h \in {MildHours, HotWetHours} }

NoData == [missing |-> {}, day |-> CalmDay, time |-> 0, hourly |-> <<>>]

\* current = data.get("current_weather", {}), line 208: key f is in the dict
CurrentHas(f) ==
    <<"current_weather", "*">> \notin data.missing /\ <<"current_weather", f>> \notin data.missing

\* columns of pd.DataFrame(data.get("hourly", {})), line 235
HourlyCols ==
    IF <<"hourly", "*">> \in data.missing THEN {}
    ELSE {c \in HourlyColumns : <<"hourly", c>> \notin data.missing}

\* hourly.empty: no column or no row
HourlyEmpty == HourlyCols = {} \/ data.hourly = <<>>

\* columns of pd.DataFrame(data.get("daily", {})), line 236
DailyCols ==
    IF <<"daily", "*">> \in data.missing THEN {}
    ELSE {c \in DailyColumns : <<"daily", c>> \notin data.missing}

\* daily.empty: the daily arrays always hold today when they are present
DailyEmpty == DailyCols = {}

----------------------------------------------------------------------------
(* The render cycle *)

NoWindow == [defined |-> FALSE, rows |-> <<>>]
NoNow == [defined |-> FALSE, time |-> 0]
NoArgs == [fn |-> "none"]
NoRequests == [geocode |-> "", forecast |-> ""]

\* values of the horizon slider, line 177 (6..48 in steps of 6)
SliderValues == {6 * k : k \in 1..MaxSliderSteps}

Init ==
    /\ city \in {"", "Chennai"}
    /\ hours_ahead \in SliderValues
    /\ show_table \in BOOLEAN
    /\ pc = "controls"
    /\ http = NoRequests
    /\ geo = "unset"
    /\ data = NoData
    /\ fetch_calls = 0
    /\ theme = NoTheme
    /\ now = NoNow
    /\ hr = NoWindow
    /\ friendly_message = ""
    /\ alerts = <<>>
    /\ rendered = {}
    /\ errors = 0
    /\ raised = ""
    /\ args = NoArgs

controls == <<city, hours_ahead, show_table, args>>

\* an uncaught exception ends the script where it is
Raise(exc) == pc' = "raised" /\ raised' = exc

\* lines 188-192
CheckCity ==
    /\ pc = "controls"
    /\ IF city = ""
           THEN /\ rendered' = rendered \cup {"title", "info: enter a city"}
                /\ pc' = "stopped"
           ELSE /\ rendered' = rendered \cup {"title"}
                /\ pc' = "geocode"
    /\ UNCHANGED <<controls, http, geo, data, fetch_calls, theme, now, hr,
                   friendly_message, alerts, errors, raised>>

\* what the geocoding request can do: requests.get raises (no connection, the
\* 20 s timeout), answers with another status than 200, answers 200 without
\* results, or answers 200 with a first result
GeocodeOutcomes == {"raises", "status", "no results", "results"}

\* geocode_city, lines 106-119: None unless status 200 with results
geocode_city(outcome) == IF outcome = "results" THEN "found" ELSE "None"

\* variant: st.stop() left out after the geocoding error
AfterGeocodeErrorGoesOn == "fetch"

\* st.stop(), line 200: where the script is after reporting "City not found"
AfterGeocodeError == "stopped"

\* lines 197-200; the call is not inside a try, so an exception of the
\* request ends the script
GeocodeCity ==
    /\ pc = "geocode"
    /\ \E outcome \in GeocodeOutcomes :
         /\ http' = [http EXCEPT !.geocode = outcome]
         /\ IF outcome = "raises"
                THEN /\ Raise("RequestException")
                     /\ UNCHANGED <<geo, errors>>
                ELSE /\ geo' = geocode_city(outcome)
                     /\ raised' = raised
                     /\ IF geo' = "None"
                            THEN errors' = errors + 1 /\ pc' = AfterGeocodeError
                            ELSE errors' = errors /\ pc' = "fetch"
    /\ UNCHANGED <<controls, data, fetch_calls, theme, now, hr,
                   friendly_message, alerts, rendered>>

\* lines 202-206: any exception of fetch_weather (the request failing,
\* raise_for_status on a non-success status) is caught, reported and stops
FetchWeather ==
    /\ pc = "fetch"
    /\ fetch_calls' = fetch_calls + 1
    /\ \/ /\ \E payload \in Payloads : data' = payload
          /\ http' = [http EXCEPT !.forecast = "ok"]
          /\ pc' = "theme"
          /\ errors' = errors
       \/ /\ data' = data
          /\ http' = [http EXCEPT !.forecast = "failed"]
          /\ errors' = errors + 1
          /\ pc' = "stopped"
    /\ UNCHANGED <<controls, geo, theme, now, hr, friendly_message, alerts,
                   rendered, raised>>

\* lines 208-211
SetTheme ==
    /\ pc = "theme"
    /\ LET code == IF CurrentHas("weathercode") THEN data.day.weathercode ELSE 1
           got == set_theme_from_code(code)
       IN  IF got.raised # ""
               THEN Raise(got.raised) /\ UNCHANGED <<theme, rendered>>
               ELSE /\ theme' = got.theme
                    /\ rendered' = rendered \cup {"theme"}
                    /\ pc' = "header"
                    /\ raised' = raised
    /\ UNCHANGED <<controls, http, geo, data, fetch_calls, now, hr, friendly_message,
                   alerts, errors>>

\* lines 212-217: the timestamp is formatted unconditionally; without one,
\* pd.to_datetime(None) gives None, which has no strftime (a pandas that gave
\* NaT would raise from strftime just the same)
Header ==
    /\ pc = "header"
    /\ IF CurrentHas("time")
           THEN /\ rendered' = rendered \cup {"header"}
                /\ pc' = "cards"
                /\ raised' = raised
           ELSE Raise("AttributeError") /\ UNCHANGED rendered
    /\ UNCHANGED <<controls, http, geo, data, fetch_calls, theme, now, hr,
                   friendly_message, alerts, errors>>

\* lines 222-230: a missing value is shown as a dash
Cards ==
    /\ pc = "cards"
    /\ rendered' = rendered \cup {"card Temperature", "card Feels Like",
                                  "card Wind Speed", "card Wind Direction"}
    /\ pc' = "frames"
    /\ UNCHANGED <<controls, http, geo, data, fetch_calls, theme, now, hr,
                   friendly_message, alerts, errors, raised>>

\* lines 235-242.  With an empty hourly frame the whole block, the assignment
\* of hr included, is skipped.  hourly["time"] needs the time column.
PrepareFrames ==
    /\ pc = "frames"
    /\ IF HourlyEmpty
           THEN /\ pc' = "alerts"
                /\ UNCHANGED <<now, hr, raised>>
           ELSE IF "time" \notin HourlyCols
           THEN /\ Raise("KeyError")
                /\ UNCHANGED <<now, hr>>
           ELSE LET start == IF CurrentHas("time") THEN data.time
                                                   ELSE data.hourly[1].time
                IN  /\ now' = [defined |-> TRUE, time |-> start]
                    /\ hr' = [defined |-> TRUE,
                              rows |-> SelectWindow(data.hourly, start, hours_ahead)]
                    /\ pc' = "feels"
                    /\ raised' = raised
    /\ UNCHANGED <<controls, http, geo, data, fetch_calls, theme, friendly_message,
                   alerts, rendered, errors>>

\* lines 245-248
FeelsLike ==
    /\ pc = "feels"
    /\ IF "apparent_temperature" \in HourlyCols /\ hr.rows # <<>>
           THEN rendered' = rendered \cup {"card Feels Like (hourly)"}
           ELSE rendered' = rendered
    /\ pc' = "message"
    /\ UNCHANGED <<controls, http, geo, data, fetch_calls, theme, now, hr,
                   friendly_message, alerts, errors, raised>>

\* lines 273-279: hr.iloc[0] of an empty window raises IndexError, and
\* current['temperature'], current['windspeed'] are plain subscripts
FriendlyMessage ==
    /\ pc = "message"
    /\ IF "precipitation_probability" \in HourlyCols /\ hr.rows = <<>>
           THEN Raise("IndexError") /\ UNCHANGED <<friendly_message, rendered>>
           ELSE IF ~CurrentHas("temperature") \/ ~CurrentHas("windspeed")
           THEN Raise("KeyError") /\ UNCHANGED <<friendly_message, rendered>>
           ELSE LET rain_probability ==
                        IF "precipitation_probability" \in HourlyCols
                            THEN hr.rows[1].precipitation_probability
                            ELSE 0
                IN  /\ friendly_message' = weather_message(data.day.temperature,
                                                data.day.windspeed, rain_probability)
                    /\ rendered' = rendered \cup {"friendly message"}
                    /\ pc' = "alerts"
                    /\ raised' = raised
    /\ UNCHANGED <<controls, http, geo, data, fetch_calls, theme, now, hr, alerts, errors>>

\* the largest element of a non-empty set of integers
SetMax(S) == CHOOSE m \in S : \A x \in S : x <= m

\* hr.head(6)["precipitation_probability"].max(), line 298
RainNext6(rows) ==
    LET n == IF Len(rows) < 6 THEN Len(rows) ELSE 6
    IN  SetMax({rows[i].precipitation_probability : i \in 1..n})

\* variant: the checks that read only the current reading and the daily row
\* are made outside the test of the window
AlertListCurrentUngated ==
    LET ws_now == IF CurrentHas("windspeed") THEN data.day.windspeed ELSE 0
        has_uv == ~DailyEmpty /\ "uv_index_max" \in DailyCols
    IN  IF hr.rows # <<>>
            THEN ComputeAlerts(
                     IF "apparent_temperature" \in HourlyCols
                         THEN hr.rows[1].apparent_temperature
                         ELSE IF CurrentHas("temperature") THEN data.day.temperature ELSE 0,
                     ws_now,
                     IF "precipitation_probability" \in HourlyCols
                         THEN RainNext6(hr.rows) ELSE 0,
                     has_uv, data.day.uv_index_max)
            ELSE IF has_uv THEN UvCheck(WindCheck(<<>>, ws_now), data.day.uv_index_max)
                           ELSE WindCheck(<<>>, ws_now)

\* lines 284-306: the list the alert section builds from the window, the
\* current reading and today's daily row
AlertList ==
    IF hr.rows # <<>>
        THEN LET t_now == IF "apparent_temperature" \in HourlyCols
                              THEN hr.rows[1].apparent_temperature
                              ELSE IF CurrentHas("temperature")
                                       THEN data.day.temperature ELSE 0
                 ws_now == IF CurrentHas("windspeed") THEN data.day.windspeed ELSE 0
                 rain_next6 == IF "precipitation_probability" \in HourlyCols
                                   THEN RainNext6(hr.rows) ELSE 0
                 has_uv == ~DailyEmpty /\ "uv_index_max" \in DailyCols
             IN  ComputeAlerts(t_now, ws_now, rain_next6, has_uv, data.day.uv_index_max)
        ELSE <<>>

\* lines 284-310: hr is unbound when the hourly frame was empty (NameError)
Alerts ==
    /\ pc = "alerts"
    /\ IF ~hr.defined
           THEN Raise("NameError") /\ UNCHANGED <<alerts, rendered>>
           ELSE /\ alerts' = AlertList
                /\ rendered' = IF alerts' # <<>> THEN rendered \cup {"alerts"}
                                                 ELSE rendered
                /\ pc' = "charts"
                /\ raised' = raised
    /\ UNCHANGED <<controls, http, geo, data, fetch_calls, theme, now, hr,
                   friendly_message, errors>>

\* lines 315-343
Charts ==
    /\ pc = "charts"
    /\ rendered' = rendered \cup
         (IF hr.rows = <<>> THEN {}
          ELSE {"hourly subheader"} \cup
               (IF {"temperature_2m", "apparent_temperature"} \cap HourlyCols # {}
                    THEN {"chart Temperature"} ELSE {}) \cup
               (IF "precipitation_probability" \in HourlyCols
                    THEN {"chart Precipitation Probability"} ELSE {}) \cup
               (IF "windspeed_10m" \in HourlyCols
                    THEN {"chart Wind Speed"} ELSE {}))
    /\ pc' = "snapshot"
    /\ UNCHANGED <<controls, http, geo, data, fetch_calls, theme, now, hr,
                   friendly_message, alerts, errors, raised>>

\* the six cards of lines 358-369 in script order, each with the column it
\* subscripts
SnapshotCards ==
    << [card |-> "card High",         column |-> "temperature_2m_max"],
       [card |-> "card Low",          column |-> "temperature_2m_min"],
       [card |-> "card Feels Max",    column |-> "apparent_temperature_max"],
       [card |-> "card Sunrise",      column |-> "sunrise"],
       [card |-> "card Sunset",       column |-> "sunset"],
       [card |-> "card UV Index Max", column |-> "uv_index_max"] >>

\* lines 348-369: the cards are written in order until a column is missing
\* (KeyError; the subscript is evaluated outside fmt_time's try)
TodaySnapshot ==
    /\ pc = "snapshot"
    /\ IF DailyEmpty
           THEN /\ pc' = "progress"
                /\ UNCHANGED <<rendered, raised>>
           ELSE LET lacking == {i \in 1..Len(SnapshotCards) :
                                    SnapshotCards[i].column \notin DailyCols}
                    written == {i \in 1..Len(SnapshotCards) :
                                    \A j \in lacking : i < j}
                IN  /\ rendered' = rendered \cup {"today subheader"} \cup
                                   {SnapshotCards[i].card : i \in written}
                    /\ IF lacking # {}
                           THEN Raise("KeyError")
                           ELSE pc' = "progress" /\ raised' = raised
    /\ UNCHANGED <<controls, http, geo, data, fetch_calls, theme, now, hr,
                   friendly_message, alerts, errors>>

\* lines 374-385
RainProgress ==
    /\ pc = "progress"
    /\ IF hr.rows # <<>> /\ "precipitation_probability" \in HourlyCols
           THEN rendered' = rendered \cup {"rain progress"}
           ELSE rendered' = rendered
    /\ pc' = "table"
    /\ UNCHANGED <<controls, http, geo, data, fetch_calls, theme, now, hr,
                   friendly_message, alerts, errors, raised>>

\* the six column names assigned on lines 395-397
TableHeadings == {"Time", "Temp", "Feels", "Humidity", "Rain", "Wind"}

\* lines 390-400: the columns kept are those present, the headings assigned
\* are always six (ValueError: length mismatch)
DetailsTable ==
    /\ pc = "table"
    /\ IF show_table /\ hr.rows # <<>>
           THEN IF Cardinality(HourlyColumns \cap HourlyCols) = Cardinality(TableHeadings)
                    THEN /\ rendered' = rendered \cup {"table"}
                         /\ pc' = "footer"
                         /\ raised' = raised
                    ELSE Raise("ValueError") /\ UNCHANGED rendered
           ELSE /\ pc' = "footer"
                /\ UNCHANGED <<rendered, raised>>
    /\ UNCHANGED <<controls, http, geo, data, fetch_calls, theme, now, hr,
                   friendly_message, alerts, errors>>

\* line 405
Footer ==
    /\ pc = "footer"
    /\ rendered' = rendered \cup {"caption"}
    /\ pc' = "done"
    /\ UNCHANGED <<controls, http, geo, data, fetch_calls, theme, now, hr,
                   friendly_message, alerts, errors, raised>>

Next ==
    \/ CheckCity
    \/ GeocodeCity
    \/ FetchWeather
    \/ SetTheme
    \/ Header
    \/ Cards
    \/ PrepareFrames
    \/ FeelsLike
    \/ FriendlyMessage
    \/ Alerts
    \/ Charts
    \/ TodaySnapshot
    \/ RainProgress
    \/ DetailsTable
    \/ Footer

Spec == Init /\ [][Next]_vars

----------------------------------------------------------------------------
(* The pure pieces on their own: each specification draws the arguments of *)
(* one function from a bounded set and applies the function once.          *)

\* the state around a single call: nothing of the render cycle has run
Standalone ==
    /\ city = "Chennai"
    /\ hours_ahead \in SliderValues
    /\ show_table = TRUE
    /\ pc = "call"
    /\ http = NoRequests
    /\ geo = "unset"
    /\ data = NoData
    /\ fetch_calls = 0
    /\ theme = NoTheme
    /\ now = NoNow
    /\ hr = NoWindow
    /\ friendly_message = ""
    /\ alerts = <<>>
    /\ rendered = {}
    /\ errors = 0
    /\ raised = ""

\* the integers within Margin of the thresholds lo..hi, and the default 0
Around(lo, hi) == ((lo - Margin)..(hi + Margin)) \cup {0}

InitMessage ==
    /\ Standalone
    /\ args \in [fn : {"weather_message"}, temp : Around(10, 38),
                 wind : Around(20, 40), rain_prob : Around(40, 70)]

CallWeatherMessage ==
    /\ pc = "call" /\ args.fn = "weather_message"
    /\ friendly_message' = weather_message(args.temp, args.wind, args.rain_prob)
    /\ pc' = "returned"
    /\ UNCHANGED <<controls, http, geo, data, fetch_calls, theme, now, hr, alerts,
                   rendered, errors, raised>>

SpecMessage == InitMessage /\ [][CallWeatherMessage]_vars

InitAlerts ==
    /\ Standalone
    /\ args \in [fn : {"alerts"}, t_now : Around(35, 40), ws_now : Around(50, 75),
                 rain_next6 : Around(70, 70), has_uv : BOOLEAN,
                 uv_today : Around(8, 8)]

CallComputeAlerts ==
    /\ pc = "call" /\ args.fn = "alerts"
    /\ alerts' = ComputeAlerts(args.t_now, args.ws_now, args.rain_next6,
                               args.has_uv, args.uv_today)
    /\ pc' = "returned"
    /\ UNCHANGED <<controls, http, geo, data, fetch_calls, theme, now, hr,
                   friendly_message, rendered, errors, raised>>

SpecAlerts == InitAlerts /\ [][CallComputeAlerts]_vars

InitClassify ==
    /\ Standalone
    /\ args \in [fn : {"set_theme_from_code"}, wmo_code : (0 - Margin)..MaxCode]

CallSetTheme ==
    /\ pc = "call" /\ args.fn = "set_theme_from_code"
    /\ LET got == set_theme_from_code(args.wmo_code)
       IN  theme' = got.theme /\ raised' = got.raised
    /\ pc' = "returned"
    /\ UNCHANGED <<controls, http, geo, data, fetch_calls, now, hr, friendly_message,
                   alerts, rendered, errors>>

SpecClassify == InitClassify /\ [][CallSetTheme]_vars

\* the ascending series whose points are at the hours of T
RECURSIVE SeriesAt(_)
SeriesAt(T) ==
    IF T = {} THEN <<>>
    ELSE LET t == CHOOSE x \in T : \A y \in T : x <= y
         IN  <<[time |-> t, apparent_temperature |-> 20 + t,
                precipitation_probability |-> 10 * t]>> \o SeriesAt(T \ {t})

InitWindow ==
    /\ Standalone
    /\ args \in [fn : {"window"}, hourly : {SeriesAt(T) : T \in SUBSET (0..MaxTime)},
                 now : (0 - 1)..(MaxTime + 1), hours : 0..MaxHorizon]

CallSelectWindow ==
    /\ pc = "call" /\ args.fn = "window"
    /\ now' = [defined |-> TRUE, time |-> args.now]
    /\ hr' = [defined |-> TRUE, rows |-> SelectWindow(args.hourly, args.now, args.hours)]
    /\ pc' = "returned"
    /\ UNCHANGED <<controls, http, geo, data, fetch_calls, theme, friendly_message,
                   alerts, rendered, errors, raised>>

SpecWindow == InitWindow /\ [][CallSelectWindow]_vars

----------------------------------------------------------------------------
(* Claims about the pure pieces *)

Returned(fn) == pc = "returned" /\ args.fn = fn

\* the priority table of the friendly message: test i decides message i
MessageTests(t, w, r) ==
    << t > 38, t > 30, t < 10, t < 18, w > 40, w > 20, r > 70, r > 40, TRUE >>

MessageTexts ==
    << "scorching", "sunny", "freezing", "cool", "strong winds", "breezy",
       "umbrella", "showers", "pleasant" >>

\* C1: weather_message returns exactly the message of the first matching
\* branch of the priority table; 38 gives the sunny message, 30 and 18 fall
\* through to the wind checks, and a wind or rain message implies
\* 18 <= temp <= 30.
C1_FirstMatchingBranch ==
    Returned("weather_message") =>
        LET tests == MessageTests(args.temp, args.wind, args.rain_prob)
            first == CHOOSE i \in 1..9 : tests[i] /\ \A j \in 1..(i - 1) : ~tests[j]
        IN  /\ friendly_message = MessageTexts[first]
            /\ args.temp = 38 => friendly_message = "sunny"
            /\ args.temp \in {18, 30} =>
                   friendly_message \in {"strong winds", "breezy", "umbrella",
                                         "showers", "pleasant"}
            /\ friendly_message \in {"strong winds", "breezy", "umbrella", "showers"}
                   => args.temp >= 18 /\ args.temp <= 30

\* a call at the boundary temperature 30 that the rain test decided
C1_Witness ==
    /\ Returned("weather_message")
    /\ args.temp = 30 /\ args.wind = 20 /\ args.rain_prob = 71
    /\ friendly_message = "umbrella"

\* position of an alert's category in the fixed order heat, wind, rain, UV
AlertRank(a) ==
    CASE a \in {"Severe Heat Alert", "Heat Caution"} -> 1
      [] a \in {"Gale Warning", "High Wind"} -> 2
      [] a = "High chance of rain in next 6 hours" -> 3
      [] a = "Extreme UV today" -> 4
      [] OTHER -> 0

Listed(a) == \E i \in 1..Len(alerts) : alerts[i] = a

\* C2: the alert list holds exactly the per-category outcomes (severe heat
\* from 40, heat caution from 35 below 40, gale from 75, high wind from 50
\* below 75, rain from 70, UV from 8), in the order heat, wind, rain, UV, so
\* at most one entry per category and at most four entries.
C2_AlertsPerCategoryInOrder ==
    Returned("alerts") =>
        /\ Listed("Severe Heat Alert") <=> args.t_now >= 40
        /\ Listed("Heat Caution") <=> (args.t_now >= 35 /\ args.t_now < 40)
        /\ Listed("Gale Warning") <=> args.ws_now >= 75
        /\ Listed("High Wind") <=> (args.ws_now >= 50 /\ args.ws_now < 75)
        /\ Listed("High chance of rain in next 6 hours") <=> args.rain_next6 >= 70
        /\ Listed("Extreme UV today") <=> (args.has_uv /\ args.uv_today >= 8)
        /\ \A i \in 1..Len(alerts) : AlertRank(alerts[i]) \in 1..4
        /\ \A i, j \in 1..Len(alerts) :
               i < j => AlertRank(alerts[i]) < AlertRank(alerts[j])
        /\ Len(alerts) <= 4

\* all four categories fired, the lower heat and wind alerts among them
C2_Witness ==
    /\ Returned("alerts")
    /\ args.t_now = 36 /\ args.ws_now = 60
    /\ alerts = << "Heat Caution", "High Wind",
                   "High chance of rain in next 6 hours", "Extreme UV today" >>

\* the condition the table documents for each code
DocumentedCodes == {0, 1, 2, 3, 45, 48, 51, 53, 55, 56, 57, 61, 63, 65, 66, 67,
                    71, 73, 75, 77, 80, 81, 82, 85, 86, 95, 96, 99}

DocumentedCondition(c) ==
    IF c \notin DocumentedCodes THEN "Cloudy"
    ELSE IF c = 0 THEN "Clear"
    ELSE IF c \in 1..3 THEN "Cloudy"
    ELSE IF c \in {45, 48} THEN "Fog"
    ELSE IF c \in (51..57) \cup (61..67) \cup (80..82) THEN "Rain"
    ELSE IF c \in (71..77) \cup {85, 86} THEN "Snow"
    ELSE "Storm"

\* C3: every code gets the documented condition, every other integer gets
\* Cloudy, and the lookup of the theme never fails.
C3_ClassifyTotal ==
    Returned("set_theme_from_code") =>
        /\ raised = ""
        /\ theme # NoTheme
        /\ theme.name = DocumentedCondition(args.wmo_code)

\* a code outside the table that was given the Cloudy theme
C3_Witness ==
    /\ Returned("set_theme_from_code")
    /\ args.wmo_code \notin DocumentedCodes
    /\ theme.name = "Cloudy"

\* C4: the window holds exactly the points of the series with
\* now <= time < now + hours, in series order; a point at now + hours is left
\* out and a horizon of 0 gives the empty window.
C4_WindowExact ==
    Returned("window") =>
        LET series == args.hourly
            lo == args.now
            hi == args.now + args.hours
        IN  /\ \A i \in 1..Len(hr.rows) :
                   /\ \E j \in 1..Len(series) : series[j] = hr.rows[i]
                   /\ hr.rows[i].time >= lo /\ hr.rows[i].time < hi
            /\ \A j \in 1..Len(series) :
                   (series[j].time >= lo /\ series[j].time < hi)
                       => \E i \in 1..Len(hr.rows) : hr.rows[i] = series[j]
            /\ \A i, k \in 1..Len(hr.rows) :
                   i < k => hr.rows[i].time < hr.rows[k].time
            /\ args.hours = 0 => hr.rows = <<>>

\* a non-empty window cut off just before a point at now + hours
C4_Witness ==
    /\ Returned("window")
    /\ hr.rows # <<>>
    /\ \E j \in 1..Len(args.hourly) : args.hourly[j].time = args.now + args.hours
    /\ \E j \in 1..Len(args.hourly) : args.hourly[j].time < args.now

----------------------------------------------------------------------------
(* Claims about the render cycle *)

\* the forecast was fetched and the script went on into the page
Fetched == http.forecast = "ok"

\* the sections written after the fetch
LaterSections ==
    rendered \ {"title", "info: enter a city"}

\* the window the payload gives when its current timestamp is used
PayloadWindow == SelectWindow(data.hourly, data.time, hours_ahead)

\* C5: with an empty or absent hourly series (and nothing else lacking) the
\* cycle runs to its end without raising.
C5_EmptySeriesCompletes ==
    (Fetched /\ HourlyEmpty /\ data.missing \subseteq {<<"hourly", "*">>})
        => pc # "raised"

\* C6: with a non-empty hourly series whose window is empty (current reading
\* and daily row complete, any hourly columns besides time) the cycle
\* completes without raising.
C6_EmptyWindowCompletes ==
    (/\ Fetched
     /\ data.missing \subseteq ({"hourly"} \X (HourlyColumns \ {"time"}))
     /\ ~HourlyEmpty
     /\ PayloadWindow = <<>>)
        => pc # "raised"

\* the fields a payload may lack one of: every column and every field of the
\* current reading except the two timestamps
OptionalFields ==
    (({"current_weather"} \X CurrentFields) \cup ({"hourly"} \X HourlyColumns)
        \cup ({"daily"} \X DailyColumns))
    \ {<<"current_weather", "time">>, <<"hourly", "time">>}

\* C7: a payload that renders every section when complete still completes,
\* without raising, when it lacks any single optional field.
C7_SingleFieldRemovalCompletes ==
    (/\ Fetched
     /\ PayloadWindow # <<>>
     /\ \E f \in OptionalFields : data.missing = {f})
        => pc # "raised"

\* the cycle is over
Ended == pc \in {"done", "stopped", "raised"}

\* the geocoding request failed or found nothing
GeocodeFailed == http.geocode \in {"raises", "status", "no results"}

\* the forecast request failed
FetchFailed == http.forecast = "failed"

\* error elements on the page: the st.error calls of the script and, when an
\* exception left the script, the one report Streamlit writes for it
ErrorsShown == errors + (IF pc = "raised" THEN 1 ELSE 0)

C9_WindowFallsBackToFirstPoint ==
    (/\ Fetched
     /\ ~CurrentHas("time")
     /\ ~HourlyEmpty /\ "time" \in HourlyCols)
        => /\ pc = "raised" => hr.defined
           /\ now.defined => now.time = data.hourly[1].time

\* C10: with an empty window the alert list is empty whatever the current
\* wind and today's UV are; a wind or UV alert appears only in a cycle whose
\* window has a point.
C10_AlertsNeedWindow ==
    /\ hr.rows = <<>> => alerts = <<>>
    /\ (\E i \in 1..Len(alerts) : AlertRank(alerts[i]) \in {2, 4})
           => hr.defined /\ hr.rows # <<>>

\* the alert stage ran on an empty window while the wind was at gale force
\* and today's UV extreme, and listed nothing
C10_Witness ==
    /\ pc = "charts"
    /\ hr.defined /\ hr.rows = <<>>
    /\ CurrentHas("windspeed") /\ data.day.windspeed >= 75
    /\ "uv_index_max" \in DailyCols /\ data.day.uv_index_max >= 8
    /\ alerts = <<>>

====
